---------------------------- MODULE Spec2Model ----------------------------
(***************************************************************************)
(* A model of the ray tracer: vector/point algebra, ray/surface            *)
(* intersection, the nearest-hit query Scene::trace, the shading loop of   *)
(* get_colour and the pixel loop of render.                                *)
(*                                                                         *)
(* Numbers.  The program computes in f64 and f32.  The model computes in   *)
(* fixed point: the integer n stands for the real n / Scale, and every     *)
(* product, quotient and square root is rounded to the nearest multiple of *)
(* 1 / Scale, as every floating-point operation is rounded to the nearest  *)
(* representable value.  Inputs are kept small enough that no intermediate *)
(* value leaves the 32-bit range of the model checker's integers, and the  *)
(* scenes never normalise a zero vector (the documented caller duty), so   *)
(* the non-finite values of floating point do not arise.                   *)
(***************************************************************************)
EXTENDS Integers, Sequences, FiniteSets, TLC

VARIABLES
    \* ---- render (main.rs:17-32) ----
    scene,        \* the scene handed to render
    scene0,       \* history: the scene as it was when render was called
    x, y,         \* the loop counters of render
    img,          \* the image: [0..width-1 -> [0..height-1 -> Rgb]]
    writes,       \* history: the sequence of <<x, y>> given to put_pixel
    pc,           \* "loop", "returned" or "panicked"
    anyImg,       \* the image of a driver that takes the pixels in any order
    anyLeft,      \* the pixels that driver has still to compute
    \* ---- Scene::trace on an arbitrary ray (scene.rs:180-187) ----
    tElements,    \* the surface list
    tRay,         \* the ray
    tIdx,         \* the iterator's position in the surface list (1-based)
    tBest,        \* the minimum kept so far: None or Some(Intersection)
    tHits,        \* history: what intersect returned for each surface scanned
    tPc,          \* "scan" or "done"
    \* ---- get_colour (main.rs:65-101) ----
    gScene,       \* the scene
    gRay,         \* the ray given to get_colour
    gHit,         \* the nearest intersection of gRay: None or Some(Intersection)
    gLight,       \* the index of the next light of the loop (1-based)
    gColour,      \* the accumulator `colour`
    gLast,        \* what the last loop iteration computed (a record), or None
    gResult,      \* the returned colour: None until get_colour returns
    gPc           \* "trace", "lights", "done" or "miss"

renderVars == <<scene, scene0, x, y, img, writes, pc, anyImg, anyLeft>>
traceVars  == <<tElements, tRay, tIdx, tBest, tHits, tPc>>
shadeVars  == <<gScene, gRay, gHit, gLight, gColour, gLast, gResult, gPc>>
vars       == <<renderVars, traceVars, shadeVars>>

-----------------------------------------------------------------------------
(* Fixed-point numbers *)

\* The resolution of the model's numbers: n stands for n / Scale.
Scale == 1000

\* The whole number k as a model number.
Num(k) == k * Scale

Abs(a) == IF a < 0 THEN -a ELSE a

\* n / d rounded to the nearest integer, halves away from zero (d > 0).
RoundDiv(n, d) ==
    IF n >= 0 THEN (n + d \div 2) \div d ELSE -(((-n) + d \div 2) \div d)

\* a * b and a / b of the program, rounded. The product is RoundDiv(a * b, Scale),
\* computed from the whole and the fractional part of b so that a * b itself is
\* never formed: it would leave the checker's integers long before the result does.
FMul(a, b) ==
    LET m == Abs(a)
        n == Abs(b)
        p == m * (n \div Scale) + RoundDiv(m * (n % Scale), Scale)
    IN  IF (a < 0) = (b < 0) THEN p ELSE -p
FDiv(a, b) == IF b > 0 THEN RoundDiv(a * Scale, b) ELSE -RoundDiv(a * Scale, -b)

\* The integer square root of n by bisection: the r in lo..hi with r*r <= n < (r+1)*(r+1).
RECURSIVE ISqrt(_, _, _)
ISqrt(n, lo, hi) ==
    IF lo >= hi THEN lo
    ELSE CHOOSE r \in { IF mid * mid <= n THEN ISqrt(n, mid, hi) ELSE ISqrt(n, lo, mid - 1) :
                        mid \in {(lo + hi + 1) \div 2} } : TRUE

\* f64::sqrt, rounded to nearest (the argument is never negative where the code calls it).
FSqrt(a) ==
    LET n == a * Scale
        r == ISqrt(n, 0, 46340)
    IN  IF n - r * r > r THEN r + 1 ELSE r

FMax(a, b) == IF a >= b THEN a ELSE b
FMin(a, b) == IF a <= b THEN a ELSE b

\* Option<T>
None == <<>>
Some(v) == <<v>>
IsSome(o) == o # None
Unwrap(o) == o[1]

-----------------------------------------------------------------------------
(* vector.rs, point.rs *)

Vector3(a, b, c) == [x |-> a, y |-> b, z |-> c]
Point(a, b, c) == [x |-> a, y |-> b, z |-> c]

\* Point::zero
Point_zero == Point(0, 0, 0)

\* Vector3::norm: the squared length
norm(v) == FMul(v.x, v.x) + FMul(v.y, v.y) + FMul(v.z, v.z)

\* Vector3::length
length(v) == FSqrt(norm(v))

\* Vector3::normalize
normalize(v) ==
    LET l == length(v) IN Vector3(FDiv(v.x, l), FDiv(v.y, l), FDiv(v.z, l))

\* Vector3::dot_prod
dot_prod(a, b) == FMul(a.x, b.x) + FMul(a.y, b.y) + FMul(a.z, b.z)

\* Mul<f64> for Vector3
Vector3_scale(v, k) == Vector3(FMul(v.x, k), FMul(v.y, k), FMul(v.z, k))

\* Neg for Vector3
Vector3_neg(v) == Vector3(-v.x, -v.y, -v.z)

\* Add<Vector3> for Point
Point_add(p, v) == Point(p.x + v.x, p.y + v.y, p.z + v.z)

\* Sub<Point> for Point
Point_sub(p, q) == Vector3(p.x - q.x, p.y - q.y, p.z - q.z)

-----------------------------------------------------------------------------
(* scene.rs: the data model *)

Colour(r, g, b) == [red |-> r, green |-> g, blue |-> b]

Sphere(c, r, col, alb) ==
    [kind |-> "Sphere", center |-> c, radius |-> r, colour |-> col, albedo |-> alb]

Plane(o, n, col, alb) ==
    [kind |-> "Plane", origin |-> o, normal |-> n, colour |-> col, albedo |-> alb]

DirectionalLight(d, col, i) ==
    [kind |-> "Directional", direction |-> d, colour |-> col, intensity |-> i]

SphericalLight(p, col, i) ==
    [kind |-> "Spherical", position |-> p, colour |-> col, intensity |-> i]

Ray(o, d) == [origin |-> o, direction |-> d]

\* Intersection::new: the distance and the surface hit, kept as its index in the
\* surface list (the program keeps a reference into that list).
Intersection(d, i) == [distance |-> d, elements |-> i]

-----------------------------------------------------------------------------
(* render.rs: intersection *)

\* The threshold 1e-6 of Plane::intersect is 1 / PlaneEpsInv.
PlaneEpsInv == 1000000

\* denom > 1e-6, for a model number denom: denom / Scale > 1 / PlaneEpsInv.
GtPlaneEps(denom) == denom > Scale \div PlaneEpsInv

\* Sphere::intersect changed to return the exit root when the entry root is behind
\* the ray origin (the "smallest non-negative root" policy).
Sphere_intersect_exitRoot(s, ray) ==
    LET l == Point_sub(s.center, ray.origin)
        adj == dot_prod(l, ray.direction)
        d2 == dot_prod(l, l) - FMul(adj, adj)
        radius2 == FMul(s.radius, s.radius)
    IN  IF d2 > radius2 THEN None
        ELSE LET thc == FSqrt(radius2 - d2)
                 t0 == adj - thc
                 t1 == adj + thc
             IN  IF t0 < 0 /\ t1 < 0 THEN None
                 ELSE Some(IF t0 < 0 THEN t1 ELSE t0)

\* Sphere::intersect
Sphere_intersect(s, ray) ==
    LET l == Point_sub(s.center, ray.origin)
        adj == dot_prod(l, ray.direction)
        d2 == dot_prod(l, l) - FMul(adj, adj)
        radius2 == FMul(s.radius, s.radius)
    IN  IF d2 > radius2 THEN None
        ELSE LET thc == FSqrt(radius2 - d2)
                 t0 == adj - thc
                 t1 == adj + thc
             IN  IF t0 < 0 /\ t1 < 0 THEN None
                 ELSE Some(IF t0 < t1 THEN t0 ELSE t1)

\* Plane::intersect changed to test the magnitude of denom (a two-sided plane).
Plane_intersect_twoSided(p, ray) ==
    LET denom == dot_prod(p.normal, ray.direction)
    IN  IF GtPlaneEps(Abs(denom))
        THEN LET v == Point_sub(p.origin, ray.origin)
                 distance == FDiv(dot_prod(v, p.normal), denom)
             IN  IF distance >= 0 THEN Some(distance) ELSE None
        ELSE None

\* Plane::intersect
Plane_intersect(p, ray) ==
    LET denom == dot_prod(p.normal, ray.direction)
    IN  IF GtPlaneEps(denom)
        THEN LET v == Point_sub(p.origin, ray.origin)
                 distance == FDiv(dot_prod(v, p.normal), denom)
             IN  IF distance >= 0 THEN Some(distance) ELSE None
        ELSE None

\* Intersectable for Element: intersect
Element_intersect(e, ray) ==
    IF e.kind = "Sphere" THEN Sphere_intersect(e, ray) ELSE Plane_intersect(e, ray)

\* Intersectable for Element: surface_normal
Element_surface_normal(e, hit_point) ==
    IF e.kind = "Sphere"
    THEN normalize(Point_sub(hit_point, e.center))
    ELSE Vector3_neg(e.normal)

-----------------------------------------------------------------------------
(* scene.rs: Scene::trace *)

\* min_by's step changed to keep the later of two equal elements (max_by's rule).
MinByStep_lastOnTies(best, next) ==
    IF best = None THEN Some(next)
    ELSE IF Unwrap(best).distance >= next.distance THEN Some(next) ELSE best

\* One step of Iterator::min_by over the intersections: the element kept so far
\* is replaced only when it compares Greater than the next one.
MinByStep(best, next) ==
    IF best = None THEN Some(next)
    ELSE IF Unwrap(best).distance > next.distance THEN Some(next) ELSE best

\* The closure of filter_map for surface i, then min_by's step.
TraceElement(elements, ray, i, best) ==
    LET d == Element_intersect(elements[i], ray)
    IN  IF IsSome(d) THEN MinByStep(best, Intersection(Unwrap(d), i)) ELSE best

RECURSIVE TraceFrom(_, _, _, _)
TraceFrom(elements, ray, i, best) ==
    IF i > Len(elements) THEN best
    ELSE TraceFrom(elements, ray, i + 1, TraceElement(elements, ray, i, best))

\* Scene::trace
trace(elements, ray) == TraceFrom(elements, ray, 1, None)

-----------------------------------------------------------------------------
(* Inputs *)

\* Points and vectors with whole-number coordinates.
P(a, b, c) == Point(Num(a), Num(b), Num(c))
V(a, b, c) == Vector3(Num(a), Num(b), Num(c))

Blue == Colour(0, 0, Num(1))
Grey == Colour(200, 200, 200)
White == Colour(Num(1), Num(1), Num(1))

\* The albedo 0.18 of every surface of main.
Albedo == 180

\* The most surfaces in a surface list, and the most lights in a light list.
MaxElements == 2
MaxLights == 2

\* The sequences over S of length at most n.
SeqUpTo(S, n) == UNION {[1..k -> S] : k \in 0..n}

\* The surfaces Scene::trace is exercised on: spheres in front of, around and
\* behind the ray origins, planes facing either way, and pairs at equal distance.
TraceSurfaces ==
    { Sphere(P(0, 0, -5), Num(1), Blue, Albedo),
      Sphere(P(0, 0, 0), Num(2), Blue, Albedo),
      Sphere(P(0, 0, -3), Num(3), Blue, Albedo),
      Sphere(P(1, 0, -5), Num(2), Blue, Albedo),
      Plane(P(0, 0, -4), V(0, 0, -1), Grey, Albedo),
      Plane(P(0, 0, -4), V(0, 0, 1), Grey, Albedo),
      Plane(P(0, -2, 0), V(0, -1, 0), Grey, Albedo),
      Plane(P(0, 0, -6), normalize(V(1, 0, -1)), Grey, Albedo) }

\* Ray origins: the camera, and points inside, on and outside the spheres.
TraceOrigins == {P(0, 0, 0), P(1, 0, 0), P(0, 0, -5), P(0, 1, -4), P(0, 0, 3)}

\* Ray directions: unit vectors, as create_prime_ray and a spherical light give
\* them, and vectors of other lengths, as a directional light gives them.
TraceDirections ==
    {normalize(d) : d \in {V(0, 0, -1), V(0, 0, 1), V(1, 0, 0), V(0, -1, 0),
                           V(1, 0, -1), V(1, 1, -1), V(0, 3, -4)}}
    \cup {V(0, 0, -2), Vector3(-250, 0, 2000)}

TraceRays == {Ray(o, d) : o \in TraceOrigins, d \in TraceDirections}

-----------------------------------------------------------------------------
(* The three machines at rest: a specification runs one and leaves the others *)

RenderIdle ==
    /\ scene = None /\ scene0 = None /\ x = 0 /\ y = 0 /\ img = None
    /\ writes = <<>> /\ pc = "idle" /\ anyImg = None /\ anyLeft = {}

TraceIdle ==
    /\ tElements = <<>> /\ tRay = None /\ tIdx = 0 /\ tBest = None
    /\ tHits = <<>> /\ tPc = "idle"

ShadeIdle ==
    /\ gScene = None /\ gRay = None /\ gHit = None /\ gLight = 0
    /\ gColour = None /\ gLast = None /\ gResult = None /\ gPc = "idle"

-----------------------------------------------------------------------------
(* Scene::trace, one surface at a time *)

TraceInit ==
    /\ tElements \in SeqUpTo(TraceSurfaces, MaxElements)
    /\ tRay \in TraceRays
    /\ tIdx = 1
    /\ tBest = None
    /\ tHits = <<>>
    /\ tPc = "scan"
    /\ RenderIdle /\ ShadeIdle

\* The iterator yields surface tIdx: filter_map's closure, then min_by's step.
TraceStep ==
    /\ tPc = "scan"
    /\ tIdx <= Len(tElements)
    /\ tHits' = Append(tHits, Element_intersect(tElements[tIdx], tRay))
    /\ tBest' = TraceElement(tElements, tRay, tIdx, tBest)
    /\ tIdx' = tIdx + 1
    /\ UNCHANGED <<tElements, tRay, tPc, renderVars, shadeVars>>

\* The iterator is exhausted: trace returns what min_by kept.
TraceReturn ==
    /\ tPc = "scan"
    /\ tIdx > Len(tElements)
    /\ tPc' = "done"
    /\ UNCHANGED <<tElements, tRay, tIdx, tBest, tHits, renderVars, shadeVars>>

TraceNext == TraceStep \/ TraceReturn

SpecTrace == TraceInit /\ [][TraceNext]_vars

-----------------------------------------------------------------------------
(* Claims about Scene::trace and the intersect functions, under SpecTrace *)

\* The surfaces scanned so far that reported a hit.
TraceHits == {i \in 1..Len(tHits) : IsSome(tHits[i])}

\* C7: Scene::trace returns no-hit exactly when no surface's intersect reports
\* a hit; otherwise it returns the surface whose reported distance is the
\* minimum over all surfaces that report a hit (negative distances included),
\* and among several surfaces at that minimum the first in surface order.
C7_TraceNearestFirst ==
    tPc = "done" =>
        /\ (tBest = None) <=> (TraceHits = {})
        /\ IsSome(tBest) =>
              LET b == Unwrap(tBest)
              IN  /\ b.elements \in TraceHits
                  /\ b.distance = Unwrap(tHits[b.elements])
                  /\ \A i \in TraceHits :
                        /\ b.distance <= Unwrap(tHits[i])
                        /\ Unwrap(tHits[i]) = b.distance => b.elements <= i

\* C7 witness: two surfaces report the same distance and the first is returned;
\* also reached with a negative minimum.
C7_Witness ==
    /\ tPc = "done" /\ Len(tElements) = 2 /\ TraceHits = {1, 2}
    /\ tHits[1] = tHits[2] /\ tElements[1] # tElements[2]
    /\ Unwrap(tBest).elements = 1

\* The ray origin lies strictly inside sphere s: |center - origin|^2 < radius^2,
\* computed exactly.
StrictlyInside(s, o) ==
    LET l == Point_sub(s.center, o)
    IN  l.x * l.x + l.y * l.y + l.z * l.z < s.radius * s.radius

\* The root t0 = adj - thc of the ray/sphere quadratic.
EntryRoot(s, ray) ==
    LET l == Point_sub(s.center, ray.origin)
        adj == dot_prod(l, ray.direction)
        thc == FSqrt(FMul(s.radius, s.radius) - (dot_prod(l, l) - FMul(adj, adj)))
    IN  adj - thc

\* C8: for a ray whose origin lies strictly inside a sphere, Sphere::intersect
\* reports a hit at the negative root t0 = adj - thc, and Scene::trace accepts
\* it: the result is at a negative distance no greater than t0, so no surface
\* in front of the ray origin is returned.
C8_InsideSphereNegativeRoot ==
    \A i \in 1..Len(tHits) :
        (tElements[i].kind = "Sphere" /\ StrictlyInside(tElements[i], tRay.origin)) =>
            LET t0 == EntryRoot(tElements[i], tRay)
            IN  /\ t0 < 0
                /\ tHits[i] = Some(t0)
                /\ tPc = "done" =>
                      /\ IsSome(tBest)
                      /\ Unwrap(tBest).distance <= t0
                      /\ \A j \in TraceHits :
                            Unwrap(tHits[j]) >= 0 => Unwrap(tBest).elements # j

\* C8 witness: a surface in front of the origin reports a positive distance, a
\* sphere around the origin reports a negative one, and trace returns the sphere.
C8_Witness ==
    /\ tPc = "done" /\ Len(tElements) = 2
    /\ IsSome(tHits[1]) /\ Unwrap(tHits[1]) > 0
    /\ tElements[2].kind = "Sphere" /\ StrictlyInside(tElements[2], tRay.origin)
    /\ Unwrap(tBest) = Intersection(EntryRoot(tElements[2], tRay), 2)

\* C9: for a ray with normal . direction <= 1e-6, Plane::intersect returns
\* no-hit; for every other ray it returns a hit at distance
\* ((origin - ray.origin) . normal) / denom exactly when that distance is >= 0,
\* and no-hit when it is negative.
C9_PlaneIntersect ==
    \A i \in 1..Len(tHits) :
        tElements[i].kind = "Plane" =>
            LET p == tElements[i]
                denom == dot_prod(p.normal, tRay.direction)
                distance == FDiv(dot_prod(Point_sub(p.origin, tRay.origin), p.normal), denom)
            IN  IF ~GtPlaneEps(denom) THEN tHits[i] = None
                ELSE IF distance >= 0 THEN tHits[i] = Some(distance)
                ELSE tHits[i] = None

\* C9 witness: one plane met from behind its normal is hit, one met against its
\* normal is not, though the ray's line crosses it ahead of the origin.
C9_Witness ==
    /\ Len(tHits) = 2
    /\ tElements[1].kind = "Plane" /\ tElements[2].kind = "Plane"
    /\ IsSome(tHits[1]) /\ Unwrap(tHits[1]) > 0
    /\ dot_prod(tElements[2].normal, tRay.direction) < 0
    /\ dot_prod(Point_sub(tElements[2].origin, tRay.origin), tElements[2].normal) < 0
    /\ tHits[2] = None

-----------------------------------------------------------------------------
(* scene.rs: colours and lights *)

\* Colour::clamp with the min(1.0) left out.
Colour_clamp_none(c) == c

\* Colour::clamp
Colour_clamp(c) ==
    Colour(FMin(c.red, Num(1)), FMin(c.green, Num(1)), FMin(c.blue, Num(1)))

\* `colour = term` where the program has `colour = colour + term`.
Colour_add_overwrite(a, b) == b

\* Add for Colour
Colour_add(a, b) == Colour(a.red + b.red, a.green + b.green, a.blue + b.blue)

\* Mul for &Colour
Colour_mul(a, b) ==
    Colour(FMul(a.red, b.red), FMul(a.green, b.green), FMul(a.blue, b.blue))

\* Mul<f32> for Colour
Colour_scale(c, k) == Colour(FMul(c.red, k), FMul(c.green, k), FMul(c.blue, k))

\* std::f32::consts::PI
Pi == (3142 * Scale) \div 1000

\* f64::INFINITY, and a finite f64 distance d, as Light::distance returns them.
Infinity == <<>>
Finite(d) == <<d>>

\* a > b for a finite a and the b of Light::distance
GtDistance(a, b) == b # Infinity /\ a > b[1]

\* Light::colour
Light_colour(l) == l.colour

\* Light::direction_from
Light_direction_from(l, hit_point) ==
    IF l.kind = "Directional"
    THEN Vector3_neg(l.direction)
    ELSE normalize(Point_sub(l.position, hit_point))

\* Light::intensity
Light_intensity(l, hit_point) ==
    IF l.kind = "Directional"
    THEN l.intensity
    ELSE LET r2 == norm(Point_sub(l.position, hit_point))
         IN  FDiv(l.intensity, FMul(FMul(Num(4), Pi), r2))

\* Light::distance
Light_distance(l, hit_point) ==
    IF l.kind = "Directional"
    THEN Infinity
    ELSE Finite(length(Point_sub(l.position, hit_point)))

\* Scene
Scene(w, h, f, es, ls, bias) ==
    [width |-> w, height |-> h, fov |-> f, elements |-> es, light |-> ls,
     shadow_bias |-> bias]

-----------------------------------------------------------------------------
(* main.rs: get_colour *)

Black == Colour(0, 0, 0)

\* ray.origin + (ray.direction * intersection.distance)
HitPoint(ray, intersection) ==
    Point_add(ray.origin, Vector3_scale(ray.direction, intersection.distance))

\* in_light with the comparison turned round.
InLight_nearer(shadow_intersection, light_distance) ==
    \/ shadow_intersection = None
    \/ ~GtDistance(Unwrap(shadow_intersection).distance, light_distance)

\* in_light: no shadow hit, or a shadow hit farther away than the light.
InLight(shadow_intersection, light_distance) ==
    \/ shadow_intersection = None
    \/ GtDistance(Unwrap(shadow_intersection).distance, light_distance)

\* The body of the loop over the lights, for light `light` and the accumulator
\* `colour`: every local of the body, and the accumulator after it.
LightStep(sc, ray, intersection, light, colour) ==
    LET element == sc.elements[intersection.elements]
        hit_point == HitPoint(ray, intersection)
        surface_normal == Element_surface_normal(element, hit_point)
        direction_to_light == Light_direction_from(light, hit_point)
        shadow_ray == Ray(Point_add(hit_point, Vector3_scale(surface_normal, sc.shadow_bias)),
                          direction_to_light)
        shadow_intersection == trace(sc.elements, shadow_ray)
        in_light == InLight(shadow_intersection, Light_distance(light, hit_point))
        light_intensity == IF in_light THEN Light_intensity(light, hit_point) ELSE 0
        light_power == FMul(FMax(dot_prod(surface_normal, direction_to_light), 0),
                            light_intensity)
        light_reflected == FDiv(element.albedo, Pi)
        light_colour == Colour_scale(Colour_scale(Light_colour(light), light_power),
                                     light_reflected)
    IN  [hit_point |-> hit_point,
         surface_normal |-> surface_normal,
         direction_to_light |-> direction_to_light,
         shadow_ray |-> shadow_ray,
         shadow_intersection |-> shadow_intersection,
         in_light |-> in_light,
         light_intensity |-> light_intensity,
         light_power |-> light_power,
         before |-> colour,
         colour |-> Colour_add(colour, Colour_mul(element.colour, light_colour))]

RECURSIVE LightsFrom(_, _, _, _, _)
LightsFrom(sc, ray, intersection, k, colour) ==
    IF k > Len(sc.light) THEN colour
    ELSE LightsFrom(sc, ray, intersection, k + 1,
                    LightStep(sc, ray, intersection, sc.light[k], colour).colour)

\* get_colour
get_colour(sc, ray, intersection) ==
    Colour_clamp(LightsFrom(sc, ray, intersection, 1, Black))

-----------------------------------------------------------------------------
(* render.rs: Ray::create_prime_ray *)

\* (fov.to_radians() / 2.0).tan() for the fields of view the scenes use.
TanHalfFov(fov) ==
    CASE fov = 60 -> (577 * Scale) \div 1000
      [] fov = 90 -> Scale
      [] fov = 120 -> (1732 * Scale) \div 1000

\* The assertion of create_prime_ray.
PrimeRayAssert(sc) == sc.width > sc.height

\* Ray::create_prime_ray, where its assertion holds.
create_prime_ray(px, py, sc) ==
    LET fov_adjustment == TanHalfFov(sc.fov)
        aspect_ratio == FDiv(Num(sc.width), Num(sc.height))
        half == Scale \div 2
        sensor_x == FMul(FMul(FMul(FDiv(Num(px) + half, Num(sc.width)), Num(2)) - Num(1),
                              aspect_ratio),
                         fov_adjustment)
        sensor_y == FMul(Num(1) - FMul(FDiv(Num(py) + half, Num(sc.height)), Num(2)),
                         fov_adjustment)
    IN  Ray(Point_zero, normalize(Vector3(sensor_x, sensor_y, -Scale)))

-----------------------------------------------------------------------------
(* Scenes for get_colour *)

\* The shadow bias of the scenes, 0.01: like main's 0.0001 a small positive
\* offset, and the smallest the model's numbers scale a unit normal by faithfully.
ShadowBias == Scale \div 100

\* The sphere the camera looks at.
Target == Sphere(P(0, 0, -5), Num(3), Blue, Albedo)

\* Surfaces behind the camera, between the target and the lights behind the
\* camera: a sphere, a plane whose normal points toward those lights and the same
\* plane with its normal turned toward the target; and the floor of main.
OccSphere == Sphere(P(0, 0, 2), Num(1), Blue, Albedo)
OccPlaneToLight == Plane(P(0, 0, 2), V(0, 0, 1), Grey, Albedo)
OccPlaneToTarget == Plane(P(0, 0, 2), V(0, 0, -1), Grey, Albedo)
Floor == Plane(P(0, -2, 0), V(0, -1, 0), Grey, Albedo)

Occluders == {OccSphere, OccPlaneToLight, OccPlaneToTarget, Floor}

\* The most surfaces a scene has besides the target.
MaxOccluders == 1

\* Lights: a directional light of unit direction shining down the camera axis,
\* the directional light of main (direction (0.25, 0, -2)), a point light behind
\* the camera and the point light of main, moved to half its distance and its
\* intensity scaled to the model.
ShadeLights ==
    { DirectionalLight(V(0, 0, -1), White, Num(20)),
      DirectionalLight(Vector3(250, 0, -2000), White, Num(20)),
      SphericalLight(P(0, 0, 5), Colour(Num(3), 800, 300), Num(1000)),
      SphericalLight(P(-1, 5, -3), Colour(Num(3), 800, 300), Num(1000)) }

\* The image size of the shading scenes: odd, so that one primary ray runs
\* along the camera axis.
ShadeWidth == 5
ShadeHeight == 3

ShadeScenes ==
    { Scene(ShadeWidth, ShadeHeight, 90, <<Target>> \o occ, ls, ShadowBias) :
        occ \in SeqUpTo(Occluders, MaxOccluders), ls \in SeqUpTo(ShadeLights, MaxLights) }

PrimeRays(sc) ==
    {create_prime_ray(px, py, sc) : px \in 0..(sc.width - 1), py \in 0..(sc.height - 1)}

-----------------------------------------------------------------------------
(* get_colour, one light at a time, on the nearest hit of a primary ray *)

ShadeInit ==
    /\ gScene \in ShadeScenes
    /\ gRay \in PrimeRays(gScene)
    /\ gHit = None
    /\ gLight = 0
    /\ gColour = None
    /\ gLast = None
    /\ gResult = None
    /\ gPc = "trace"
    /\ RenderIdle /\ TraceIdle

\* render's scene.trace(&ray), and on a hit the entry of get_colour: the
\* accumulator starts black.
ShadeTrace ==
    /\ gPc = "trace"
    /\ gHit' = trace(gScene.elements, gRay)
    /\ IF gHit' = None
       THEN gPc' = "miss" /\ UNCHANGED <<gLight, gColour>>
       ELSE gPc' = "lights" /\ gLight' = 1 /\ gColour' = Black
    /\ UNCHANGED <<gScene, gRay, gLast, gResult, renderVars, traceVars>>

\* One iteration of `for light in &scene.light`.
ShadeLight ==
    /\ gPc = "lights"
    /\ gLight <= Len(gScene.light)
    /\ LET step == LightStep(gScene, gRay, Unwrap(gHit), gScene.light[gLight], gColour)
       IN  /\ gLast' = Some([light |-> gLight] @@ step)
           /\ gColour' = step.colour
    /\ gLight' = gLight + 1
    /\ UNCHANGED <<gScene, gRay, gHit, gResult, gPc, renderVars, traceVars>>

\* The loop is over: colour.clamp() is returned.
ShadeReturn ==
    /\ gPc = "lights"
    /\ gLight > Len(gScene.light)
    /\ gResult' = Some(Colour_clamp(gColour))
    /\ gPc' = "done"
    /\ UNCHANGED <<gScene, gRay, gHit, gLight, gColour, gLast, renderVars, traceVars>>

ShadeNext == ShadeTrace \/ ShadeLight \/ ShadeReturn

SpecShade == ShadeInit /\ [][ShadeNext]_vars

-----------------------------------------------------------------------------
(* Claims about get_colour, under SpecShade *)

\* What the last iteration of the light loop computed.
LastStep == Unwrap(gLast)
LastLight == gScene.light[LastStep.light]

NonNegativeColour(c) == c.red >= 0 /\ c.green >= 0 /\ c.blue >= 0

\* Surface colours, light colours, albedos and light intensities are non-negative.
NonNegativeScene(sc) ==
    /\ \A i \in 1..Len(sc.elements) :
         NonNegativeColour(sc.elements[i].colour) /\ sc.elements[i].albedo >= 0
    /\ \A k \in 1..Len(sc.light) :
         NonNegativeColour(sc.light[k].colour) /\ sc.light[k].intensity >= 0

InUnitRange(v) == 0 <= v /\ v <= Num(1)

\* C3: for a scene whose surface colours, light colours, albedos and light
\* intensities are non-negative, every channel of the colour get_colour returns
\* lies in [0, 1].
C3_ColourInUnitRange ==
    (gPc = "done" /\ NonNegativeScene(gScene)) =>
        LET c == Unwrap(gResult)
        IN  InUnitRange(c.red) /\ InUnitRange(c.green) /\ InUnitRange(c.blue)

\* C3 witness: the accumulated blue channel exceeds 1 and is returned as 1.
C3_Witness ==
    /\ gPc = "done" /\ NonNegativeScene(gScene)
    /\ gColour.blue > Num(1) /\ Unwrap(gResult).blue = Num(1)

\* C10: the accumulator starts black, the lights are taken in scene order, no
\* channel of the accumulator is smaller after a light than before it, and a
\* scene without lights yields black for every hit.
C10_AccumulationMonotone ==
    NonNegativeScene(gScene) =>
        /\ (gPc = "lights" /\ gLight = 1) => (gColour = Black /\ gLast = None)
        /\ gLast # None =>
             /\ LastStep.light = gLight - 1
             /\ LastStep.before.red <= gColour.red
             /\ LastStep.before.green <= gColour.green
             /\ LastStep.before.blue <= gColour.blue
        /\ (gPc = "done" /\ gScene.light = <<>>) => Unwrap(gResult) = Black

\* C10 witness: the second of two lights has raised a channel that the first
\* had already raised above black.
C10_Witness ==
    /\ gPc = "done" /\ Len(gScene.light) = 2 /\ LastStep.light = 2
    /\ LastStep.before.blue > 0 /\ gColour.blue > LastStep.before.blue

\* How far from 1 the computed length of a normalised vector may be: 0.01.
UnitTol == Scale \div 100

\* C6: for every light variant and every hit point, the direction
\* Light::direction_from gives to the shadow ray and to the cosine term of
\* get_colour has length 1. The code negates a directional light's direction
\* without normalising it, so this fails for the light of main.
C6_DirectionUnit ==
    gLast # None => Abs(length(LastStep.direction_to_light) - Num(1)) <= UnitTol

\* The number of points sampled on the way from a hit point to a light, and how
\* far (in half steps of its direction) a directional light's way is followed.
SegSamples == 8
DirReach == 12

\* The k-th sampled point on the way from hit point h to light l.
WayPoint(h, l, k) ==
    IF l.kind = "Directional"
    THEN Point_add(h, Vector3_scale(Vector3_neg(l.direction), k * (Scale \div 2)))
    ELSE LET v == Point_sub(l.position, h)
         IN  Point(h.x + (v.x * k) \div SegSamples, h.y + (v.y * k) \div SegSamples,
                   h.z + (v.z * k) \div SegSamples)

WaySamples(l) == IF l.kind = "Directional" THEN 1..DirReach ELSE 1..(SegSamples - 1)

\* q lies inside sphere s, more than m away from its surface (computed exactly).
InsideBy(s, q, m) ==
    LET l == Point_sub(s.center, q)
    IN  /\ s.radius > m
        /\ l.x * l.x + l.y * l.y + l.z * l.z < (s.radius - m) * (s.radius - m)

\* The signed distance of q from plane p along its normal.
PlaneSide(p, q) == dot_prod(Point_sub(q, p.origin), p.normal)

\* Surface e lies directly on the way from hit point h to light l, nearer than
\* the light and clear of both ends by more than m: a sphere holds a sampled
\* point of the way; a plane has h on one side and the light on the other.
LiesBetween(e, h, l, m) ==
    IF e.kind = "Sphere"
    THEN \E k \in WaySamples(l) : InsideBy(e, WayPoint(h, l, k), m)
    ELSE LET sh == PlaneSide(e, h)
         IN  IF l.kind = "Directional"
             THEN \/ sh < -m /\ dot_prod(e.normal, Vector3_neg(l.direction)) > 0
                  \/ sh > m /\ dot_prod(e.normal, Vector3_neg(l.direction)) < 0
             ELSE \/ sh < -m /\ PlaneSide(e, l.position) > m
                  \/ sh > m /\ PlaneSide(e, l.position) < -m

\* The stored normal of plane e has a positive component along direction d.
FacesAlong(e, d) == GtPlaneEps(dot_prod(e.normal, d))

-----------------------------------------------------------------------------
(* main.rs: render *)

\* `v as u8` for a non-negative v: truncated, and saturated at 255.
AsU8(v) == FMin(FMax(v \div Scale, 0), 255)

\* to_rgba
to_rgba(c) == <<AsU8(c.red * 255), AsU8(c.green * 255), AsU8(c.blue * 255), 0>>

\* Rgba::from_channels(0, 0, 0, 255)
black == <<0, 0, 0, 255>>

\* DynamicImage::new_rgb8(width, height): every pixel (0, 0, 0).
new_rgb8(w, h) == [p \in (0..(w - 1)) \X (0..(h - 1)) |-> <<0, 0, 0>>]

\* img.put_pixel(x, y, color) on an RGB image: the alpha channel is dropped.
put_pixel(image, px, py, color) ==
    [image EXCEPT ![<<px, py>>] = <<color[1], color[2], color[3]>>]

\* The colour render computes for pixel (px, py).
PixelColour(sc, px, py) ==
    LET ray == create_prime_ray(px, py, sc)
        intersection == trace(sc.elements, ray)
    IN  IF IsSome(intersection)
        THEN to_rgba(get_colour(sc, ray, Unwrap(intersection)))
        ELSE black

\* The loop body with a loop-carried colour: a ray that hits nothing repeats the
\* pixel above it (or to its left) in the image instead of black.
RenderBody_carry(sc, image, px, py) ==
    LET ray == create_prime_ray(px, py, sc)
        intersection == trace(sc.elements, ray)
        prev == IF py > 0 THEN image[<<px, py - 1>>]
                ELSE IF px > 0 THEN image[<<px - 1, py>>] ELSE <<0, 0, 0>>
    IN  put_pixel(image, px, py,
                  IF IsSome(intersection)
                  THEN to_rgba(get_colour(sc, ray, Unwrap(intersection)))
                  ELSE prev \o <<255>>)

\* The body of render's loops for pixel (px, py): the image after put_pixel.
RenderBody(sc, image, px, py) == put_pixel(image, px, py, PixelColour(sc, px, py))

\* The inner loop written `0..height - 1`.
PixelPending_shortColumn(sc, px, py) == px < sc.width /\ py < sc.height - 1

\* `for x in 0..width { for y in 0..height`: the loops stand at a pixel.
PixelPending(sc, px, py) == px < sc.width /\ py < sc.height

\* The loop counters after the body for (px, py): down the column, then on to
\* the next column.
RenderAdvance(sc, px, py) ==
    IF PixelPending(sc, px, py + 1) THEN <<px, py + 1>> ELSE <<px + 1, 0>>

\* The largest image render is run on.
MaxWidth == 3
MaxHeight == 2

\* What render is run on: the target above the floor under the lights of main,
\* the scene of test_can_render_scene (one sphere through the camera, no
\* light), an empty scene, and a plane between the target and a point light.
RenderContents ==
    { [fov |-> 90, elements |-> <<Target, Floor>>,
       light |-> <<DirectionalLight(Vector3(250, 0, -2000), White, Num(20)),
                   SphericalLight(P(-1, 5, -3), Colour(Num(3), 800, 300), Num(1000))>>],
      [fov |-> 90,
       elements |-> <<Sphere(P(0, 0, -5), Num(5), Colour(400, Num(1), 400), Albedo)>>,
       light |-> <<>>],
      [fov |-> 60, elements |-> <<>>, light |-> <<>>],
      [fov |-> 90, elements |-> <<Target, OccPlaneToTarget>>,
       light |-> <<SphericalLight(P(0, 0, 5), White, Num(1000))>>] }

RenderScenes ==
    { Scene(w, h, c.fov, c.elements, c.light, ShadowBias) :
        w \in 0..MaxWidth, h \in 0..MaxHeight, c \in RenderContents }

\* render is called: the image is allocated and the loops start.
RenderInit ==
    /\ scene \in RenderScenes
    /\ scene0 = scene
    /\ x = 0 /\ y = 0
    /\ img = new_rgb8(scene.width, scene.height)
    /\ writes = <<>>
    /\ pc = "loop"
    /\ anyImg = new_rgb8(scene.width, scene.height)
    /\ anyLeft = (0..(scene.width - 1)) \X (0..(scene.height - 1))
    /\ TraceIdle /\ ShadeIdle

\* One pass of the loop body; create_prime_ray's assertion holds.
RenderPixel ==
    /\ pc = "loop"
    /\ PixelPending(scene, x, y)
    /\ PrimeRayAssert(scene)
    /\ img' = RenderBody(scene, img, x, y)
    /\ writes' = Append(writes, <<x, y>>)
    /\ x' = RenderAdvance(scene, x, y)[1]
    /\ y' = RenderAdvance(scene, x, y)[2]
    /\ UNCHANGED <<scene, scene0, pc, anyImg, anyLeft, traceVars, shadeVars>>

\* create_prime_ray's assertion fails: render panics.
RenderPanic ==
    /\ pc = "loop"
    /\ PixelPending(scene, x, y)
    /\ ~PrimeRayAssert(scene)
    /\ pc' = "panicked"
    /\ UNCHANGED <<scene, scene0, x, y, img, writes, anyImg, anyLeft, traceVars, shadeVars>>

\* The loops are over: render returns img.
RenderReturn ==
    /\ pc = "loop"
    /\ ~PixelPending(scene, x, y)
    /\ pc' = "returned"
    /\ UNCHANGED <<scene, scene0, x, y, img, writes, anyImg, anyLeft, traceVars, shadeVars>>

Next == RenderPixel \/ RenderPanic \/ RenderReturn

Spec == RenderInit /\ [][Next]_vars

-----------------------------------------------------------------------------
(* Claims about render, under Spec *)

Rectangle(sc) == (0..(sc.width - 1)) \X (0..(sc.height - 1))

\* How many times location p was given to put_pixel.
TimesWritten(p) == Cardinality({i \in 1..Len(writes) : writes[i] = p})

ValidSize(sc) == sc.width > sc.height /\ sc.height >= 1

\* C1: for a scene with width > height >= 1 render terminates, and when it has
\* returned every pixel of the width x height rectangle has been written exactly
\* once, nothing outside it has been written, and the image is width x height.
\* Termination of the synchronous loop is stated by its variant: render never
\* panics, the passes made so far number x * height + y, while fewer than
\* width * height are made the next pass can be taken, and once width * height
\* are made render can only return.
C1_RenderCoversRectangle ==
    ValidSize(scene) =>
        /\ pc \in {"loop", "returned"}
        /\ pc = "loop" =>
             /\ Len(writes) = x * scene.height + y
             /\ \/ /\ PixelPending(scene, x, y) /\ PrimeRayAssert(scene)
                   /\ Len(writes) < scene.width * scene.height
                \/ /\ ~PixelPending(scene, x, y)
                   /\ Len(writes) = scene.width * scene.height
        /\ pc = "returned" =>
             /\ \A p \in Rectangle(scene) : TimesWritten(p) = 1
             /\ \A i \in 1..Len(writes) : writes[i] \in Rectangle(scene)
             /\ DOMAIN img = Rectangle(scene)

\* C1 witness: render has returned an image of several columns and rows.
C1_Witness ==
    /\ pc = "returned" /\ ValidSize(scene) /\ scene.height >= 2
    /\ Len(writes) = scene.width * scene.height
    /\ \E p \in Rectangle(scene) : img[p] # <<0, 0, 0>>

\* C2: for every scene whose width is less than or equal to its height, render
\* panics instead of returning an image, widths and heights of 0 included. The
\* assertion sits in create_prime_ray, which a scene of width 0 never reaches.
C2_InvalidSizePanics ==
    scene.width <= scene.height => pc # "returned"

-----------------------------------------------------------------------------
(* The pixels in any order *)

\* A second driver over the same scene, started once render has returned: it
\* takes the pixels one at a time in any order, runs the loop body of render on
\* each and writes only that pixel of its own image.
AnyPixel ==
    /\ pc = "returned"
    /\ \E p \in anyLeft :
         /\ anyImg' = RenderBody(scene, anyImg, p[1], p[2])
         /\ anyLeft' = anyLeft \ {p}
    /\ UNCHANGED <<scene, scene0, x, y, img, writes, pc, traceVars, shadeVars>>

AnyInit == RenderInit /\ PrimeRayAssert(scene)

AnyNext == RenderPixel \/ RenderReturn \/ AnyPixel

SpecAnyOrder == AnyInit /\ [][AnyNext]_vars

=============================================================================
